---- MODULE Spec2Model ----
(***************************************************************************)
(* Model of the flexible-house simulator: the desirability scorer and the  *)
(* two greedy allocators of optimiser.py, the baseline synthesizers of     *)
(* baseline.py, and the baseline/run-optimisation flow of main.py.         *)
(*                                                                         *)
(* Numbers.  The program computes in floats; the model computes in exact   *)
(* rationals <<n, d>> (d > 0, lowest terms), so "equal" below means equal  *)
(* as real numbers.  IEEE rounding is not modelled.  NaN, the float of a    *)
(* missing value, is <<0, 0>>: it propagates through the arithmetic and     *)
(* compares unequal to, and not below or above, everything.                 *)
(*                                                                         *)
(* Time.  A timestamp is a half-hour tick of the selected date; a clock    *)
(* time (datetime.time) is a tick too, and datetime.combine(date, t) is t. *)
(* The slot table df is the three parallel columns timestamps, price and   *)
(* carbon, indexed 1..Len(timestamps) (the RangeIndex of the frame).       *)
(***************************************************************************)
EXTENDS Integers, Sequences, FiniteSets, TLC

\* ------------------------------------------------------------------ bounds
\* Half-hour ticks of the (shortened) day of SpecScorer, SpecEv, SpecHeatpump.
NumTicks == 3
\* SpecScorer: the price of a slot ranges over 0..MaxPrice.
MaxPrice == 2
\* Required energy / heat-pump total, in kWh, ranges up to MaxKwh.
MaxKwh == 2
\* Charger power, in kW, ranges up to MaxChargerKw.
MaxChargerKw == 3
\* max_hours ranges up to MaxHours.
MaxHours == 2

\* ------------------------------------------------------- program constants
\* Half-hour slots of a full day, as the data provider returns them.
DaySlots == 48
\* main.py passes charger_kw=7.0 and max_hours=16.
MainChargerKw == 7
MainMaxHours == 16
\* build_ev_baseline's default power_kw=7, which main.py takes.
DefaultPowerKw == 7
\* build_heatpump_baseline's default cop=3.0, which main.py takes.
DefaultCop == 3

\* ------------------------------------------------------ rational arithmetic
RECURSIVE GCD(_, _)
GCD(a, b) == IF b = 0 THEN a ELSE GCD(b, a % b)

Abs(n) == IF n < 0 THEN -n ELSE n

\* float("nan")
NaN == <<0, 0>>

\* n/d in lowest terms with a positive denominator; NaN when an operand was.
Rat(n, d) ==
    IF d = 0 THEN NaN
    ELSE LET s == IF d < 0 THEN -1 ELSE 1
             g == GCD(Abs(n), Abs(d))
         IN  <<(s * n) \div g, (s * d) \div g>>

FromInt(n) == <<n, 1>>
Zero == <<0, 1>>
\* the literal 0.5
Half == <<1, 2>>

RAdd(a, b) == Rat(a[1] * b[2] + b[1] * a[2], a[2] * b[2])
RSub(a, b) == Rat(a[1] * b[2] - b[1] * a[2], a[2] * b[2])
RMul(a, b) == Rat(a[1] * b[1], a[2] * b[2])
RDiv(a, b) == Rat(a[1] * b[2], a[2] * b[1])
RNeg(a) == <<-a[1], a[2]>>
RLt(a, b) == a[1] * b[2] < b[1] * a[2]
RLe(a, b) == a # NaN /\ b # NaN /\ a[1] * b[2] <= b[1] * a[2]
\* a == b on floats
REq(a, b) == a # NaN /\ b # NaN /\ a = b
\* Python's min(a, b)
RMin(a, b) == IF RLt(b, a) THEN b ELSE a

\* ------------------------------------------------------------------ series
Index(s) == 1..Len(s)

\* The series with the values of f, held as a sequence.
Series(f) == SubSeq(f, 1, Len(f))

\* pd.Series(v, index=df.index)
Const(n, v) == Series([i \in 1..n |-> v])

\* The sum of s[lo..hi], by halves.
RECURSIVE SumRange(_, _, _)
SumRange(s, lo, hi) ==
    IF lo > hi THEN Zero
    ELSE IF lo = hi THEN s[lo]
    ELSE LET mid == (lo + hi) \div 2
         IN  RAdd(SumRange(s, lo, mid), SumRange(s, mid + 1, hi))
\* Series.sum()
Sum(s) == SumRange(s, 1, Len(s))

\* The values of s that are not NaN.
NotNa(s) == {s[i] : i \in Index(s)} \ {NaN}

\* Series.max() and Series.min(): skipna=True leaves the NaN values out, and
\* the result is NaN when nothing is left.
SeriesMax(s) == LET data == NotNa(s)
                IN  IF data = {} THEN NaN
                    ELSE CHOOSE x \in data : \A y \in data : RLe(y, x)
SeriesMin(s) == LET data == NotNa(s)
                IN  IF data = {} THEN NaN
                    ELSE CHOOSE x \in data : \A y \in data : RLe(x, y)

\* --------------------------------------------------------- optimiser.py
\* How a column of the table writes the NaN of a row the join left unmatched
\* (the values proper are never negative here).
NoData == -1

\* The columns of the frame as float series.
Column(c) == Series([i \in Index(c) |->
                        IF c[i] = NoData THEN NaN ELSE FromInt(c[i])])

\* _norm dividing by the maximum instead of the range.
_norm_by_max(series) ==
    LET lo == SeriesMin(series)
        hi == SeriesMax(series)
    IN  IF Len(series) = 0 THEN series
        ELSE IF REq(hi, lo) THEN Const(Len(series), Half)
        ELSE Series([i \in Index(series) |->
                        RDiv(RSub(series[i], lo), hi)])

\* _norm: min-max normalisation.  On an empty or all-NaN series max() and
\* min() are NaN, NaN == NaN is False, and the elementwise expression yields
\* the empty, respectively all-NaN, series.
_norm(series) ==
    LET lo == SeriesMin(series)
        hi == SeriesMax(series)
    IN  IF Len(series) = 0 THEN series
        ELSE IF REq(hi, lo) THEN Const(Len(series), Half)
        ELSE Series([i \in Index(series) |->
                        RDiv(RSub(series[i], lo), RSub(hi, lo))])

\* The goal labels of the radio in main.py, and a label it does not offer.
Goals == {"Cheapest energy", "Lowest carbon", "Balanced", "Greenest"}

\* compute_scores whose fallback is the lowest-carbon score.
compute_scores_carbon_fallback(df, opt_goal) ==
    LET price_n == _norm(Column(df.price))
        carbon_n == _norm(Column(df.carbon_intensity))
    IN  IF opt_goal = "Cheapest energy"
        THEN Series([i \in Index(price_n) |-> RNeg(price_n[i])])
        ELSE IF opt_goal = "Balanced"
        THEN Series([i \in Index(price_n) |->
                        RSub(RMul(RNeg(Half), price_n[i]),
                             RMul(Half, carbon_n[i]))])
        ELSE Series([i \in Index(carbon_n) |-> RNeg(carbon_n[i])])

compute_scores(df, opt_goal) ==
    LET price_n == _norm(Column(df.price))
        carbon_n == _norm(Column(df.carbon_intensity))
    IN  IF opt_goal = "Cheapest energy"
        THEN Series([i \in Index(price_n) |-> RNeg(price_n[i])])
        ELSE IF opt_goal = "Lowest carbon"
        THEN Series([i \in Index(carbon_n) |-> RNeg(carbon_n[i])])
        ELSE IF opt_goal = "Balanced"
        THEN Series([i \in Index(price_n) |->
                        RSub(RMul(RNeg(Half), price_n[i]),
                             RMul(Half, carbon_n[i]))])
        ELSE Series([i \in Index(price_n) |-> RNeg(price_n[i])])

\* All orderings of the finite set S, as sequences.
RECURSIVE Orderings(_)
Orderings(S) ==
    IF S = {} THEN {<<>>}
    ELSE UNION {{<<x>> \o o : o \in Orderings(S \ {x})} : x \in S}

\* The orders that list the labels by increasing rank.  ranked holds a pair
\* <<label, rank>> for each label, the rank being the number of labels that go
\* before it; labels of one rank may come in any order.  lo and hi are ranks
\* (or the number of labels): the orders of the labels ranked lo..hi-1, put
\* together from those of the two halves.
RECURSIVE RankOrders(_, _, _)
RankOrders(ranked, lo, hi) ==
    LET cuts == {t[2] : t \in ranked} \cap ((lo + 1)..(hi - 1))
    IN  IF cuts = {}
        THEN Orderings({t[1] : t \in {u \in ranked : u[2] = lo}})
        ELSE LET mid == CHOOSE m \in cuts : \A k \in cuts :
                            Abs(2 * m - lo - hi) <= Abs(2 * k - lo - hi)
             IN  {x \o y : x \in RankOrders(ranked, lo, mid),
                           y \in RankOrders(ranked, mid, hi)}

\* sort_values with ascending=True: the lowest scores first.
sort_values_ascending(scores, idx) ==
    IF idx = {} THEN {<<>>}
    ELSE RankOrders({<<i, Cardinality({j \in idx :
                                         RLt(scores[j], scores[i])})>> :
                        i \in idx}, 0, Cardinality(idx))

\* Series.sort_values(ascending=False).index over the labels idx (whose scores
\* are numbers).  The call takes the default kind="quicksort", which is not a
\* stable sort: labels of equal score come out in an order the library build
\* decides, so every ordering of each group of equal scores is a possible
\* outcome.
sort_values(scores, idx) ==
    IF idx = {} THEN {<<>>}
    ELSE RankOrders({<<i, Cardinality({j \in idx :
                                         RLt(scores[i], scores[j])})>> :
                        i \in idx}, 0, Cardinality(idx))

\* sort_values that forgets what it did: a sort free to order equal scores
\* anew at every call.
sort_values_anew(seen, scores, idx) == sort_values(scores, idx)

\* sort_values in a process that has already sorted: seen holds the triples
\* <<scores, idx, order>> of the calls made so far.  The library's sort is a
\* fixed algorithm without any random choice, so the input of an earlier call
\* is given the order of that call again; an input not seen before is given
\* any of the orders sort_values allows.
sort_values_again(seen, scores, idx) ==
    LET before == {t \in seen : t[1] = scores /\ t[2] = idx}
    IN  IF before = {} THEN sort_values(scores, idx)
        ELSE {t[3] : t \in before}

\* candidate_idx taking the departure slot too.
candidate_idx_to_depart(df, arrival_time, depart_time) ==
    IF depart_time > arrival_time
    THEN {i \in Index(df.timestamp) :
             df.timestamp[i] >= arrival_time /\ df.timestamp[i] <= depart_time}
    ELSE {i \in Index(df.timestamp) :
             df.timestamp[i] >= arrival_time \/ df.timestamp[i] <= depart_time}

\* candidate_idx that wraps only when departure is before arrival.
candidate_idx_no_wrap_on_equal(df, arrival_time, depart_time) ==
    IF depart_time >= arrival_time
    THEN {i \in Index(df.timestamp) :
             df.timestamp[i] >= arrival_time /\ df.timestamp[i] < depart_time}
    ELSE {i \in Index(df.timestamp) :
             df.timestamp[i] >= arrival_time \/ df.timestamp[i] < depart_time}

\* candidate_idx = df.index[mask]
candidate_idx(df, arrival_time, depart_time) ==
    IF depart_time > arrival_time
    THEN {i \in Index(df.timestamp) :
             df.timestamp[i] >= arrival_time /\ df.timestamp[i] < depart_time}
    ELSE {i \in Index(df.timestamp) :
             df.timestamp[i] >= arrival_time \/ df.timestamp[i] < depart_time}

\* The loop of optimise_ev without "remaining -= charge".
RECURSIVE EvLoop_keep_remaining(_, _, _, _)
EvLoop_keep_remaining(sorted_idx, slot_kwh, remaining, ev_opt) ==
    IF sorted_idx = <<>> \/ RLe(remaining, Zero) THEN ev_opt
    ELSE LET charge == RMin(slot_kwh, remaining)
         IN  EvLoop_keep_remaining(Tail(sorted_idx), slot_kwh, remaining,
                    [ev_opt EXCEPT ![Head(sorted_idx)] = charge])

\* The loop of optimise_ev over sorted_idx.
RECURSIVE EvLoop(_, _, _, _)
EvLoop(sorted_idx, slot_kwh, remaining, ev_opt) ==
    IF sorted_idx = <<>> \/ RLe(remaining, Zero) THEN ev_opt
    ELSE LET charge == RMin(slot_kwh, remaining)
         IN  EvLoop(Tail(sorted_idx), slot_kwh, RSub(remaining, charge),
                    [ev_opt EXCEPT ![Head(sorted_idx)] = charge])

\* optimise_ev in a process whose sort has made the calls seen: the pairs of
\* a series it can return and the calls of the sort made by then.
optimise_ev_again(seen, df, date_obj, arrival_time, depart_time, ev_kwh_needed, opt_goal, charger_kw) ==
    LET ev_opt == Const(Len(df.timestamp), Zero)
        scores == compute_scores(df, opt_goal)
        cand == candidate_idx(df, arrival_time, depart_time)
        slot_kwh == RMul(FromInt(charger_kw), Half)
    IN  IF cand = {} \/ ev_kwh_needed <= 0
        THEN {[val |-> ev_opt, seen |-> seen]}
        ELSE {[val |-> EvLoop(sorted_idx, slot_kwh, FromInt(ev_kwh_needed),
                              ev_opt),
               seen |-> seen \cup {<<scores, cand, sorted_idx>>}] :
                 sorted_idx \in sort_values_again(seen, scores, cand)}

\* optimise_ev: the series it can return.
optimise_ev(df, date_obj, arrival_time, depart_time, ev_kwh_needed, opt_goal, charger_kw) ==
    LET ev_opt == Const(Len(df.timestamp), Zero)
        scores == compute_scores(df, opt_goal)
        cand == candidate_idx(df, arrival_time, depart_time)
        slot_kwh == RMul(FromInt(charger_kw), Half)
    IN  IF cand = {} \/ ev_kwh_needed <= 0 THEN {ev_opt}
        ELSE {EvLoop(sorted_idx, slot_kwh, FromInt(ev_kwh_needed), ev_opt) :
                 sorted_idx \in sort_values(scores, cand)}

\* Python's seq[:k]
SliceTo(seq, k) ==
    LET n == IF k >= 0 THEN (IF k < Len(seq) THEN k ELSE Len(seq))
             ELSE (IF Len(seq) + k > 0 THEN Len(seq) + k ELSE 0)
    IN  SubSeq(seq, 1, n)

Range(seq) == {seq[i] : i \in 1..Len(seq)}

\* max_slots without the cap on the hours.
max_slots_uncapped(df, max_hours) == Len(df.timestamp)

\* max_slots taking one slot per hour.
max_slots_per_hour(df, max_hours) ==
    IF Len(df.timestamp) < max_hours THEN Len(df.timestamp) ELSE max_hours

\* min(len(all_idx), max_hours * 2)
max_slots(df, max_hours) ==
    IF Len(df.timestamp) < max_hours * 2 THEN Len(df.timestamp) ELSE max_hours * 2

\* A returned series, and a raised exception.
Returned(v) == [kind |-> "return", val |-> v]
Raised(e) == [kind |-> "raise", val |-> e]

\* The scalar types hp_total_kwh arrives in: a Python float (the annotation),
\* or the numpy.float64 that main.py's df["hp_kwh"].sum() yields.
ScalarTypes == {"float", "numpy.float64"}

\* optimise_heatpump: the outcomes it can have.  hp_total_kwh is a rational.
\* With no slot selected, hp_total_kwh / len(best_idx) raises ZeroDivisionError
\* for a Python float and is inf (with a warning) for a numpy.float64, which
\* the assignment to the empty selection then leaves unused.
optimise_heatpump(df, hp_total_kwh, scalar_type, opt_goal, max_hours) ==
    LET hp_opt == Const(Len(df.timestamp), Zero)
        scores == compute_scores(df, opt_goal)
    IN  IF RLe(hp_total_kwh, Zero) THEN {Returned(hp_opt)}
        ELSE {LET best_idx == SliceTo(order, max_slots(df, max_hours))
              IN  IF Len(best_idx) = 0
                  THEN IF scalar_type = "float"
                       THEN Raised("ZeroDivisionError")
                       ELSE Returned(hp_opt)
                  ELSE Returned(Series([i \in Index(hp_opt) |->
                           IF i \in Range(best_idx)
                           THEN RDiv(hp_total_kwh, FromInt(Len(best_idx)))
                           ELSE hp_opt[i]]))
              : order \in sort_values(scores, Index(df.timestamp))}

\* optimise_heatpump in a process whose sort has made the calls seen: the
\* pairs of an outcome it can have and the calls of the sort made by then.
optimise_heatpump_again(seen, df, hp_total_kwh, scalar_type, opt_goal, max_hours) ==
    LET hp_opt == Const(Len(df.timestamp), Zero)
        scores == compute_scores(df, opt_goal)
        all_idx == Index(df.timestamp)
    IN  IF RLe(hp_total_kwh, Zero)
        THEN {[val |-> Returned(hp_opt), seen |-> seen]}
        ELSE {LET best_idx == SliceTo(order, max_slots(df, max_hours))
              IN  [val |-> IF Len(best_idx) = 0
                           THEN IF scalar_type = "float"
                                THEN Raised("ZeroDivisionError")
                                ELSE Returned(hp_opt)
                           ELSE Returned(Series([i \in Index(hp_opt) |->
                                    IF i \in Range(best_idx)
                                    THEN RDiv(hp_total_kwh,
                                              FromInt(Len(best_idx)))
                                    ELSE hp_opt[i]])),
                   seen |-> seen \cup {<<scores, all_idx, order>>}]
              : order \in sort_values_again(seen, scores, all_idx)}

\* ----------------------------------------------------------- baseline.py
\* The loop of build_ev_baseline starting after the arrival slot.
RECURSIVE EvBaselineLoop_after(_, _, _, _, _, _)
EvBaselineLoop_after(timestamps, i, arrival_dt, slot_kwh, remaining, ev_kwh) ==
    IF i > Len(ev_kwh) THEN ev_kwh
    ELSE IF timestamps[i] > arrival_dt /\ RLt(Zero, remaining)
         THEN LET charge == RMin(slot_kwh, remaining)
              IN  EvBaselineLoop_after(timestamps, i + 1, arrival_dt, slot_kwh,
                      RSub(remaining, charge),
                      Series([j \in Index(ev_kwh) |->
                                 IF timestamps[j] = timestamps[i] THEN charge
                                 ELSE ev_kwh[j]]))
         ELSE EvBaselineLoop_after(timestamps, i + 1, arrival_dt, slot_kwh,
                                   remaining, ev_kwh)

\* The loop of build_ev_baseline over df["timestamp"], from row i on; the
\* rows of df are those of its ev_kwh column.
RECURSIVE EvBaselineLoop(_, _, _, _, _, _)
EvBaselineLoop(timestamps, i, arrival_dt, slot_kwh, remaining, ev_kwh) ==
    IF i > Len(ev_kwh) THEN ev_kwh
    ELSE IF timestamps[i] >= arrival_dt /\ RLt(Zero, remaining)
         THEN LET charge == RMin(slot_kwh, remaining)
              IN  EvBaselineLoop(timestamps, i + 1, arrival_dt, slot_kwh,
                      RSub(remaining, charge),
                      Series([j \in Index(ev_kwh) |->
                                 IF timestamps[j] = timestamps[i] THEN charge
                                 ELSE ev_kwh[j]]))
         ELSE EvBaselineLoop(timestamps, i + 1, arrival_dt, slot_kwh,
                             remaining, ev_kwh)

\* build_ev_baseline taking power_kw as the energy of a slot.
build_ev_baseline_hourly(date, timestamps, arrival_time, ev_kwh_needed, power_kw) ==
    EvBaselineLoop(timestamps, 1, arrival_time,
                   FromInt(power_kw), FromInt(ev_kwh_needed),
                   Const(Len(timestamps), Zero))

\* build_ev_baseline: the ev_kwh column of the frame it returns.
build_ev_baseline(date, timestamps, arrival_time, ev_kwh_needed, power_kw) ==
    EvBaselineLoop(timestamps, 1, arrival_time,
                   RMul(FromInt(power_kw), Half), FromInt(ev_kwh_needed),
                   Const(Len(timestamps), Zero))

\* The clock time hour:00 as a half-hour tick.
Hour(h) == 2 * h

\* pd.date_range with inclusive="both"
date_range_both(start, end) == [k \in 1..(IF end >= start THEN end - start + 1
                                            ELSE 0) |-> start + k - 1]

\* pd.date_range(start, end, freq="30min", inclusive="left")
date_range(start, end) == [k \in 1..(IF end > start THEN end - start ELSE 0)
                              |-> start + k - 1]

\* build_household_baseline: the house_kwh column.
build_household_baseline(date, timestamps) ==
    LET morning_range == date_range(Hour(6), Hour(8))
        evening_range == date_range(Hour(17), Hour(21))
        idle == Const(Len(timestamps), <<1, 8>>)
        morning == Series([i \in Index(idle) |->
                       IF timestamps[i] \in Range(morning_range)
                       THEN RAdd(idle[i],
                                 RDiv(Half, FromInt(Len(morning_range))))
                       ELSE idle[i]])
    IN  Series([i \in Index(morning) |->
            IF timestamps[i] \in Range(evening_range)
            THEN RAdd(morning[i],
                      RDiv(FromInt(1), FromInt(Len(evening_range))))
            ELSE morning[i]])

\* estimate_daily_heat_demand; a date is modelled by its month.
estimate_daily_heat_demand(date) ==
    IF date \in {12, 1, 2} THEN 18
    ELSE IF date \in {3, 4, 11} THEN 12
    ELSE IF date \in {5, 10} THEN 7
    ELSE IF date \in {6, 7, 8} THEN 4
    ELSE 6

\* The rows of one window, in row order: df[(ts >= start) & (ts < end)].index
RECURSIVE WindowRows(_, _, _)
WindowRows(timestamps, window, i) ==
    IF i > Len(timestamps) THEN <<>>
    ELSE (IF timestamps[i] >= window[1] /\ timestamps[i] < window[2]
          THEN <<i>> ELSE <<>>) \o WindowRows(timestamps, window, i + 1)

\* build_heatpump_baseline: the hp_kwh column.  valid_indices is a list: a row
\* inside both windows is in it twice.
build_heatpump_baseline(date, timestamps, morning_window, evening_window, cop) ==
    LET daily_thermal_kwh == estimate_daily_heat_demand(date)
        hp_kwh == Const(Len(timestamps), Zero)
        valid_indices == WindowRows(timestamps, morning_window, 1)
                            \o WindowRows(timestamps, evening_window, 1)
        total_elec_kwh == RDiv(FromInt(daily_thermal_kwh), FromInt(cop))
        slot_kwh == RDiv(total_elec_kwh, FromInt(Len(valid_indices)))
    IN  IF Len(valid_indices) = 0 THEN hp_kwh
        ELSE Series([i \in Index(hp_kwh) |->
                 IF i \in Range(valid_indices) THEN slot_kwh ELSE hp_kwh[i]])

\* ------------------------------------------------------------------ state
VARIABLES
    df,     \* the slot table: [timestamp, price, carbon_intensity], row-aligned
    pc,     \* Spec: "idle" / "returned"; SpecMain: main.py's position
    fn,     \* the function called last ("none" before any call, "main" in SpecMain)
    args,   \* its arguments (SpecMain: the inputs of the page)
    ret,    \* its outcome (SpecMain: the columns main.py has added to df)
    seen    \* SpecRerun: the calls of the sort made so far in the process,
            \* as triples <<scores, idx, order>>; elsewhere not kept ({})

vars == <<df, pc, fn, args, ret, seen>>

\* The ticks of the day of Spec*: a slot starts at each.
Ticks == 0..(NumTicks - 1)

\* The slot tables with prices in P and carbon intensities in C: the first n
\* slots of the day, for every n up to the whole day (unique, strictly
\* increasing, no gaps).
Frames(P, C) ==
    UNION {{[timestamp |-> [i \in 1..n |-> i - 1], price |-> p,
             carbon_intensity |-> c] :
               p \in [1..n -> P], c \in [1..n -> C]} : n \in 0..NumTicks}

\* The numeric arguments tried: each range starts at -1, the negative value
\* no caller should pass.
KwhValues == (-1)..MaxKwh
ChargerValues == (-1)..MaxChargerKw
HourValues == (-1)..MaxHours

\* No call is in progress.
Idle ==
    /\ pc = "idle"
    /\ fn = "none"
    /\ args = <<>>
    /\ ret = <<>>
    /\ seen = {}

\* The scorer is run on tables whose price ranges over 0..MaxPrice and whose
\* carbon intensity is low (0) or high (1) in each slot.
InitScorer == df \in Frames(0..MaxPrice, {0, 1}) /\ Idle

\* The allocators are run on tables whose price, and whose carbon intensity,
\* is low (0) or high (1) in each slot.
InitAlloc == df \in Frames({0, 1}, {0, 1}) /\ Idle

Call_norm ==
    \E series \in {Column(df.price), Column(df.carbon_intensity)} :
        /\ pc = "idle"
        /\ fn' = "_norm"
        /\ args' = [series |-> series]
        /\ ret' = Returned(_norm(series))
        /\ pc' = "returned"
        /\ UNCHANGED <<df, seen>>

CallComputeScores ==
    /\ pc = "idle"
    /\ \E opt_goal \in Goals :
        /\ fn' = "compute_scores"
        /\ args' = [opt_goal |-> opt_goal]
        /\ ret' = Returned(compute_scores(df, opt_goal))
        /\ pc' = "returned"
        /\ UNCHANGED <<df, seen>>

CallOptimiseEv ==
    /\ pc = "idle"
    /\ \E arrival_time \in Ticks, depart_time \in Ticks,
       ev_kwh_needed \in KwhValues, charger_kw \in ChargerValues,
       opt_goal \in Goals :
        /\ fn' = "optimise_ev"
        /\ args' = [arrival_time |-> arrival_time, depart_time |-> depart_time,
                    ev_kwh_needed |-> ev_kwh_needed, charger_kw |-> charger_kw,
                    opt_goal |-> opt_goal]
        /\ \E ev_opt \in optimise_ev(df, 1, arrival_time, depart_time,
                                     ev_kwh_needed, opt_goal, charger_kw) :
               ret' = Returned(ev_opt)
        /\ pc' = "returned"
        /\ UNCHANGED <<df, seen>>

CallOptimiseHeatpump ==
    /\ pc = "idle"
    /\ \E hp_total_kwh \in KwhValues, scalar_type \in ScalarTypes,
       opt_goal \in Goals, max_hours \in HourValues :
        /\ fn' = "optimise_heatpump"
        /\ args' = [hp_total_kwh |-> hp_total_kwh, scalar_type |-> scalar_type,
                    opt_goal |-> opt_goal, max_hours |-> max_hours]
        /\ ret' \in optimise_heatpump(df, FromInt(hp_total_kwh), scalar_type,
                                      opt_goal, max_hours)
        /\ pc' = "returned"
        /\ UNCHANGED <<df, seen>>

\* The caller consumes the outcome; the next request starts afresh on the
\* same table (nothing is kept between runs).
Return ==
    /\ pc = "returned"
    /\ pc' = "idle"
    /\ fn' = "none"
    /\ args' = <<>>
    /\ ret' = <<>>
    /\ UNCHANGED <<df, seen>>

NextScorer == Call_norm \/ CallComputeScores \/ Return
SpecScorer == InitScorer /\ [][NextScorer]_vars

\* The scorer run on the table as load_grid_data's left joins leave it: any
\* slot may lack its price, its carbon intensity, or both.
InitJoin ==
    /\ df \in Frames({NoData} \cup 0..MaxPrice, {NoData, 0, 1})
    /\ Idle
SpecJoin == InitJoin /\ [][NextScorer]_vars

NextEv == CallOptimiseEv \/ Return
SpecEv == InitAlloc /\ [][NextEv]_vars

NextHeatpump == CallOptimiseHeatpump \/ Return
SpecHeatpump == InitAlloc /\ [][NextHeatpump]_vars

\* ------------------------------------------------ the baseline synthesizers
\* The baselines read the timestamps of the table only.
InitBaseline == df \in Frames({0}, {0}) /\ Idle

\* A date is its month.
Months == 1..12
\* A comfort window is a pair of clock times; it is empty when the second is
\* not after the first.
Windows == (0..NumTicks) \X (0..NumTicks)
\* Coefficients of performance tried (cop > 0).
CopValues == {1, DefaultCop}

CallBuildEvBaseline ==
    /\ pc = "idle"
    /\ \E arrival_time \in Ticks, ev_kwh_needed \in KwhValues,
          power_kw \in ChargerValues :
        /\ fn' = "build_ev_baseline"
        /\ args' = [arrival_time |-> arrival_time,
                    ev_kwh_needed |-> ev_kwh_needed, power_kw |-> power_kw]
        /\ ret' = Returned(build_ev_baseline(1, df.timestamp, arrival_time,
                                             ev_kwh_needed, power_kw))
        /\ pc' = "returned"
        /\ UNCHANGED <<df, seen>>

CallBuildHouseholdBaseline ==
    /\ pc = "idle"
    /\ \E date \in Months :
        /\ fn' = "build_household_baseline"
        /\ args' = [date |-> date]
        /\ ret' = Returned(build_household_baseline(date, df.timestamp))
        /\ pc' = "returned"
        /\ UNCHANGED <<df, seen>>

CallBuildHeatpumpBaseline ==
    /\ pc = "idle"
    /\ \E date \in Months, morning_window \in Windows,
          evening_window \in Windows, cop \in CopValues :
        /\ fn' = "build_heatpump_baseline"
        /\ args' = [date |-> date, morning_window |-> morning_window,
                    evening_window |-> evening_window, cop |-> cop]
        /\ ret' = Returned(build_heatpump_baseline(date, df.timestamp,
                               morning_window, evening_window, cop))
        /\ pc' = "returned"
        /\ UNCHANGED <<df, seen>>

NextBaseline ==
    \/ CallBuildEvBaseline
    \/ CallBuildHouseholdBaseline
    \/ CallBuildHeatpumpBaseline
    \/ Return
SpecBaseline == InitBaseline /\ [][NextBaseline]_vars

\* ------------------------------------------------- two runs in one process
\* The scorer or an allocator is run, and then run again on the same table
\* with the same arguments; ret collects the two outcomes.  The tables have a
\* two-level price and a constant carbon intensity, so that slots tie under
\* every goal.
InitRerun == df \in Frames({0, 1}, {0}) /\ Idle

\* The run about to be made is the first one, or repeats the call made.
SameCall(f, a) == pc = "idle" \/ (pc = "once" /\ fn = f /\ args = a)
Ran == IF pc = "idle" THEN "once" ELSE "twice"

RunComputeScores ==
    \E opt_goal \in Goals :
        LET a == [opt_goal |-> opt_goal]
        IN  /\ SameCall("compute_scores", a)
            /\ fn' = "compute_scores"
            /\ args' = a
            /\ ret' = Append(ret, Returned(compute_scores(df, opt_goal)))
            /\ pc' = Ran
            /\ UNCHANGED <<df, seen>>

RunOptimiseEv ==
    \E arrival_time \in Ticks, depart_time \in Ticks,
       ev_kwh_needed \in KwhValues, charger_kw \in ChargerValues,
       opt_goal \in Goals :
        LET a == [arrival_time |-> arrival_time, depart_time |-> depart_time,
                  ev_kwh_needed |-> ev_kwh_needed, charger_kw |-> charger_kw,
                  opt_goal |-> opt_goal]
        IN  /\ SameCall("optimise_ev", a)
            /\ fn' = "optimise_ev"
            /\ args' = a
            /\ \E r \in optimise_ev_again(seen, df, 1, arrival_time,
                          depart_time, ev_kwh_needed, opt_goal, charger_kw) :
                   /\ ret' = Append(ret, Returned(r.val))
                   /\ seen' = r.seen
            /\ pc' = Ran
            /\ UNCHANGED df

RunOptimiseHeatpump ==
    \E hp_total_kwh \in KwhValues, scalar_type \in ScalarTypes,
       opt_goal \in Goals, max_hours \in HourValues :
        LET a == [hp_total_kwh |-> hp_total_kwh, scalar_type |-> scalar_type,
                  opt_goal |-> opt_goal, max_hours |-> max_hours]
        IN  /\ SameCall("optimise_heatpump", a)
            /\ fn' = "optimise_heatpump"
            /\ args' = a
            /\ \E r \in optimise_heatpump_again(seen, df,
                          FromInt(hp_total_kwh), scalar_type, opt_goal,
                          max_hours) :
                   /\ ret' = Append(ret, r.val)
                   /\ seen' = r.seen
            /\ pc' = Ran
            /\ UNCHANGED df

NextRerun == RunComputeScores \/ RunOptimiseEv \/ RunOptimiseHeatpump
SpecRerun == InitRerun /\ [][NextRerun]_vars

\* ---------------------------------------------------------------- main.py
\* The full day the data provider returns: DaySlots slots, every carbon
\* intensity distinct and every price distinct (one of MainShifts rotations
\* of a stride-7 pattern), so that no two slots score alike under any goal;
\* and ValleyFrame, where two slots share a price.
MainShifts == {0, 5}
\* A day whose price has its valley at 02:00-04:00: the four slots of 02:00 to
\* 03:30 cost least, the last two of them the same; every other slot has a
\* price of its own.
ValleyFrame ==
    [timestamp |-> [i \in 1..DaySlots |-> i - 1],
     price |-> [i \in 1..DaySlots |->
                   IF i - 1 \in Hour(2)..(Hour(4) - 1)
                   THEN (IF i - 1 - Hour(2) < 2 THEN i - 1 - Hour(2) ELSE 2)
                   ELSE 4 + ((i - 1 + 40) % DaySlots)],
     carbon_intensity |-> [i \in 1..DaySlots |-> 50 + (i - 1) * (i - 1)]]
MainFrames ==
    {[timestamp |-> [i \in 1..DaySlots |-> i - 1],
      price |-> [i \in 1..DaySlots |-> (7 * (i - 1) + s) % DaySlots],
      carbon_intensity |-> [i \in 1..DaySlots |-> 50 + (i - 1) * (i - 1)]] :
        s \in MainShifts} \cup {ValleyFrame}

\* The inputs of the page: the date (its month), the EV times and energy, and
\* the goal radio, which offers the three recognised labels only.
MainInputs ==
    [selected_date : 1..12,
     ev_arrival : {Hour(0), Hour(18), Hour(23)},
     ev_depart : {Hour(7), Hour(19)},
     ev_kwh : {0, 10, 100},
     opt_goal : {"Cheapest energy", "Lowest carbon", "Balanced"}]

InitMain ==
    /\ df \in MainFrames
    /\ pc = "loaded"
    /\ fn = "main"
    /\ args \in MainInputs
    /\ ret = <<>>
    /\ seen = {}

\* x + y of two columns
ColAdd(x, y) == Series([i \in Index(x) |-> RAdd(x[i], y[i])])

\* "Build baseline load models": the three baseline columns and their total.
MainBuildBaselines ==
    /\ pc = "loaded"
    /\ LET ev_kwh == build_ev_baseline(args.selected_date, df.timestamp,
                         args.ev_arrival, args.ev_kwh, DefaultPowerKw)
           hp_kwh == build_heatpump_baseline(args.selected_date, df.timestamp,
                         <<Hour(6), Hour(9)>>, <<Hour(17), Hour(21)>>,
                         DefaultCop)
           house_kwh == build_household_baseline(args.selected_date,
                                                 df.timestamp)
       IN  ret' = [ev_kwh |-> ev_kwh, hp_kwh |-> hp_kwh,
                   house_kwh |-> house_kwh,
                   baseline_kwh |-> ColAdd(ColAdd(ev_kwh, hp_kwh), house_kwh)]
    /\ pc' = "baselined"
    /\ UNCHANGED <<df, fn, args, seen>>

\* The run_clicked block: both allocators, then the optimised total.
\* hp_total_kwh is df["hp_kwh"].sum(), a numpy.float64.
MainRunClicked ==
    /\ pc = "baselined"
    /\ \E ev_opt \in optimise_ev(df, args.selected_date, args.ev_arrival,
                                 args.ev_depart, args.ev_kwh, args.opt_goal,
                                 MainChargerKw),
          hp \in optimise_heatpump(df, Sum(ret.hp_kwh), "numpy.float64",
                                   args.opt_goal, MainMaxHours) :
           /\ hp.kind = "return"
           /\ ret' = [ev_kwh |-> ret.ev_kwh, hp_kwh |-> ret.hp_kwh,
                      house_kwh |-> ret.house_kwh,
                      baseline_kwh |-> ret.baseline_kwh,
                      ev_kwh_opt |-> ev_opt, hp_kwh_opt |-> hp.val,
                      optimised_kwh |->
                          ColAdd(ColAdd(ev_opt, hp.val), ret.house_kwh)]
    /\ pc' = "optimised"
    /\ UNCHANGED <<df, fn, args, seen>>

NextMain == MainBuildBaselines \/ MainRunClicked
SpecMain == InitMain /\ [][NextMain]_vars

\* optimise_ev called on its own on the short tables, or by main.py on a
\* full day; likewise optimise_heatpump.
SpecEvAnywhere == (InitAlloc \/ InitMain) /\ [][NextEv \/ NextMain]_vars
SpecHeatpumpAnywhere ==
    (InitAlloc \/ InitMain) /\ [][NextHeatpump \/ NextMain]_vars

\* ================================================================= claims
\* A clock time t is in the charging window from arrival a to departure d.
InWindow(t, a, d) == IF d > a THEN a <= t /\ t < d ELSE t >= a \/ t < d

\* The rows of the table whose clock time is in the window.
WindowSlots(a, d) == {i \in Index(df.timestamp) : InWindow(df.timestamp[i], a, d)}

\* charger_kw x 0.5, the energy one slot can take
SlotCapacity(kw) == Rat(kw, 2)
IsZero(series) == \A i \in Index(series) : series[i] = Zero
Positive(series) == {i \in Index(series) : RLt(Zero, series[i])}

EvCall == fn = "optimise_ev"
HpCall == fn = "optimise_heatpump"

\* C1: optimise_ev returns a series whose sum is min(ev_kwh_needed, number of
\* eligible slots x charger_kw x 0.5), for every table, window, requirement
\* >= 0, charger power >= 0 and goal.
C1_EvTotal ==
    (EvCall /\ args.ev_kwh_needed >= 0 /\ args.charger_kw >= 0) =>
        /\ ret.kind = "return"
        /\ Sum(ret.val) =
              RMin(FromInt(args.ev_kwh_needed),
                   Rat(Cardinality(WindowSlots(args.arrival_time,
                                               args.depart_time))
                          * args.charger_kw, 2))

\* C1 witness: a requirement below the window's capacity is met in full, the
\* last slot taking only the remainder.
C1_Witness ==
    /\ EvCall
    /\ args.ev_kwh_needed > 0
    /\ Sum(ret.val) = FromInt(args.ev_kwh_needed)
    /\ Cardinality(WindowSlots(args.arrival_time, args.depart_time))
          * args.charger_kw > 2 * args.ev_kwh_needed
    /\ \E i, j \in Index(ret.val) :
          /\ ret.val[i] = SlotCapacity(args.charger_kw)
          /\ RLt(Zero, ret.val[j])
          /\ RLt(ret.val[j], SlotCapacity(args.charger_kw))

\* C2: every slot of optimise_ev's series holds between 0 and charger_kw x 0.5,
\* and a slot outside the arrival/departure window holds exactly 0.
C2_EvSlotBounds ==
    (EvCall /\ args.ev_kwh_needed >= 0 /\ args.charger_kw >= 0) =>
        /\ ret.kind = "return"
        /\ Len(ret.val) = Len(df.timestamp)
        /\ \A i \in Index(ret.val) :
              /\ RLe(Zero, ret.val[i])
              /\ RLe(ret.val[i], SlotCapacity(args.charger_kw))
              /\ ~InWindow(df.timestamp[i], args.arrival_time,
                           args.depart_time) => ret.val[i] = Zero

\* C2 witness: a slot at the departure time stays empty although the
\* requirement is not met, and a slot inside the window is filled to capacity.
C2_Witness ==
    /\ EvCall
    /\ args.charger_kw > 0
    /\ args.depart_time > args.arrival_time
    /\ RLt(Sum(ret.val), FromInt(args.ev_kwh_needed))
    /\ \E i, j \in Index(ret.val) :
          /\ df.timestamp[i] = args.depart_time
          /\ ret.val[i] = Zero
          /\ ret.val[j] = SlotCapacity(args.charger_kw)

\* C3: the slots optimise_ev treats as eligible are those with arrival <=
\* time < departure when departure > arrival, those with time >= arrival or
\* time < departure otherwise, and so all of them when departure = arrival.
\* The slots it charges are eligible, and are all the eligible ones when the
\* requirement is at least their capacity.
C3_EligibleWindow ==
    EvCall =>
        LET a == args.arrival_time
            d == args.depart_time
            claimed == {i \in Index(df.timestamp) :
                           \/ d > a /\ a <= df.timestamp[i] /\ df.timestamp[i] < d
                           \/ d <= a /\ (df.timestamp[i] >= a \/ df.timestamp[i] < d)}
        IN  /\ candidate_idx(df, a, d) = claimed
            /\ d = a => claimed = Index(df.timestamp)
            /\ args.charger_kw > 0 => Positive(ret.val) \subseteq claimed
            /\ (args.charger_kw > 0 /\
                2 * args.ev_kwh_needed >= Cardinality(claimed) * args.charger_kw
                /\ args.ev_kwh_needed > 0)
                  => Positive(ret.val) = claimed

\* C3 witness: an overnight window (departure before arrival) on three slots:
\* the first and the last are charged, the one between is not.
C3_Witness ==
    /\ EvCall
    /\ args.depart_time < args.arrival_time
    /\ Len(ret.val) >= 3
    /\ Positive(ret.val) = {1, Len(ret.val)}
    /\ df.timestamp[1] < args.depart_time
    /\ df.timestamp[Len(ret.val)] >= args.arrival_time
\* C4 as stated: after a run, each flexible device's optimised series has the
\* same daily total as its baseline series.
C4_Original ==
    pc = "optimised" =>
        /\ Sum(ret.ev_kwh_opt) = Sum(ret.ev_kwh)
        /\ Sum(ret.hp_kwh_opt) = Sum(ret.hp_kwh)

\* The rows at or after the arrival timestamp.
SlotsFrom(a) == {i \in Index(df.timestamp) : df.timestamp[i] >= a}

\* C4, amended: after a run the heat pump's optimised total equals its baseline
\* total; the EV's optimised total is min(requirement, capacity of the slots in
\* the arrival/departure window) and its baseline total is min(requirement,
\* capacity of the slots at or after arrival), so the two EV totals are equal
\* exactly when these two minima are.
C4_Amended ==
    pc = "optimised" =>
        /\ Sum(ret.hp_kwh_opt) = Sum(ret.hp_kwh)
        /\ Sum(ret.ev_kwh_opt) =
              RMin(FromInt(args.ev_kwh),
                   Rat(Cardinality(WindowSlots(args.ev_arrival, args.ev_depart))
                          * MainChargerKw, 2))
        /\ Sum(ret.ev_kwh) =
              RMin(FromInt(args.ev_kwh),
                   Rat(Cardinality(SlotsFrom(args.ev_arrival)) * DefaultPowerKw,
                       2))

\* C4 witness: a run that moves the EV's and the heat pump's energy to other
\* slots and keeps both totals.
C4_Witness ==
    /\ pc = "optimised"
    /\ args.ev_kwh > 0
    /\ Sum(ret.ev_kwh_opt) = FromInt(args.ev_kwh)
    /\ Sum(ret.ev_kwh) = FromInt(args.ev_kwh)
    /\ ret.ev_kwh_opt # ret.ev_kwh
    /\ ret.hp_kwh_opt # ret.hp_kwh
    /\ RLt(Zero, Sum(ret.hp_kwh_opt))

\* C5 as stated: optimise_heatpump returns a series that sums to hp_total_kwh
\* when hp_total_kwh > 0 and a slot is selected (table non-empty, max_hours >=
\* 1), and returns the all-zero series in every other case.
C5_HpTotal ==
    HpCall =>
        /\ ret.kind = "return"
        /\ IF args.hp_total_kwh > 0 /\ Len(df.timestamp) > 0
              /\ args.max_hours >= 1
           THEN Sum(ret.val) = FromInt(args.hp_total_kwh)
           ELSE IsZero(ret.val)

\* C6 as stated: with max_hours = 0 and hp_total_kwh > 0, optimise_heatpump
\* returns the all-zero series and raises nothing (stated here for a table
\* that has slots, so that the cap alone leaves none selected).
C6_ZeroCap ==
    (HpCall /\ args.max_hours = 0 /\ args.hp_total_kwh > 0
        /\ Len(df.timestamp) > 0) =>
        /\ ret.kind = "return"
        /\ IsZero(ret.val)

\* A run on a January date.
JanuaryRun == pc = "optimised" /\ args.selected_date = 1

\* C7 as stated: on a January date (18 kWh thermal, COP 3, 6 kWh electrical)
\* with max_hours = 16 every one of the 48 slots gets 0.125 kWh.
C7_Original ==
    JanuaryRun =>
        /\ Len(ret.hp_kwh_opt) = 48
        /\ Sum(ret.hp_kwh) = FromInt(6)
        /\ \A i \in Index(ret.hp_kwh_opt) : ret.hp_kwh_opt[i] = <<1, 8>>

\* C7, amended: on a January date with max_hours = 16 the cap is 32 slots,
\* below the 48 of the day: the 32 best-scored slots get 6/32 = 0.1875 kWh
\* each and the other 16 get 0.
C7_Amended ==
    JanuaryRun =>
        LET scores == compute_scores(df, args.opt_goal)
            chosen == {i \in Index(ret.hp_kwh_opt) :
                          ret.hp_kwh_opt[i] = <<3, 16>>}
            others == {i \in Index(ret.hp_kwh_opt) : ret.hp_kwh_opt[i] = Zero}
        IN  /\ Len(ret.hp_kwh_opt) = 48
            /\ Sum(ret.hp_kwh) = FromInt(6)
            /\ Cardinality(chosen) = 32
            /\ Cardinality(others) = 16
            /\ \A i \in chosen, j \in others : RLe(scores[j], scores[i])

\* C7 witness: a January run in which a slot is heated and another is not.
C7_Witness ==
    /\ JanuaryRun
    /\ \E i, j \in Index(ret.hp_kwh_opt) :
          /\ ret.hp_kwh_opt[i] = <<3, 16>>
          /\ ret.hp_kwh_opt[j] = Zero

\* C8: _norm maps a non-constant series to values in [0, 1] with minimum 0
\* and maximum 1, each (x - min)/(max - min), and a constant series to 0.5 in
\* every slot.
C8_Norm ==
    fn = "_norm" =>
        LET x == args.series
            y == ret.val
        IN  /\ ret.kind = "return"
            /\ Len(y) = Len(x)
            /\ Len(x) > 0 =>
                  LET lo == SeriesMin(x)
                      hi == SeriesMax(x)
                  IN  IF lo = hi
                      THEN \A i \in Index(y) : y[i] = Half
                      ELSE /\ \A i \in Index(y) :
                                 /\ RLe(Zero, y[i]) /\ RLe(y[i], FromInt(1))
                                 /\ RMul(y[i], RSub(hi, lo)) = RSub(x[i], lo)
                           /\ \E i \in Index(y) : y[i] = Zero
                           /\ \E i \in Index(y) : y[i] = FromInt(1)

\* C8 witness: a non-constant series with a value strictly between its
\* minimum and its maximum.
C8_Witness ==
    /\ fn = "_norm"
    /\ \E i, j, k \in Index(ret.val) :
          /\ ret.val[i] = Zero
          /\ ret.val[j] = Half
          /\ ret.val[k] = FromInt(1)

\* C9: compute_scores returns -norm(price) for the cheapest goal,
\* -norm(carbon_intensity) for the lowest-carbon goal and
\* -0.5 norm(price) - 0.5 norm(carbon_intensity) for the balanced goal; for
\* any other label it returns what the cheapest goal gives, and raises nothing.
C9_Scores ==
    fn = "compute_scores" =>
        LET p == _norm(Column(df.price))
            c == _norm(Column(df.carbon_intensity))
            y == ret.val
        IN  /\ ret.kind = "return"
            /\ Len(y) = Len(df.timestamp)
            /\ \A i \in Index(y) :
                  IF args.opt_goal = "Lowest carbon"
                  THEN RAdd(y[i], c[i]) = Zero
                  ELSE IF args.opt_goal = "Balanced"
                  THEN RAdd(RAdd(y[i], y[i]), RAdd(p[i], c[i])) = Zero
                  ELSE RAdd(y[i], p[i]) = Zero

\* C9 witness: an unrecognised label scored on a table whose price and carbon
\* intensity rank the slots differently.
C9_Witness ==
    /\ fn = "compute_scores"
    /\ args.opt_goal \notin {"Cheapest energy", "Lowest carbon", "Balanced"}
    /\ \E i, j \in Index(ret.val) :
          /\ RLt(ret.val[i], ret.val[j])
          /\ df.carbon_intensity[i] < df.carbon_intensity[j]

\* C10 as stated: slots of equal score are ranked in slot order; with constant
\* carbon intensity and the lowest-carbon goal optimise_ev fills the eligible
\* slots in increasing slot order, so an eligible slot is charged only when
\* every earlier eligible slot is filled to capacity.
C10_TieOrder ==
    (/\ EvCall
     /\ args.opt_goal = "Lowest carbon"
     /\ args.ev_kwh_needed > 0
     /\ args.charger_kw > 0
     /\ \A i, j \in Index(df.carbon_intensity) :
           df.carbon_intensity[i] = df.carbon_intensity[j]) =>
        \A i, j \in WindowSlots(args.arrival_time, args.depart_time) :
            (i < j /\ RLt(Zero, ret.val[j])) =>
                ret.val[i] = SlotCapacity(args.charger_kw)

C12_FailFast ==
    (/\ EvCall
     /\ args.ev_kwh_needed < 0 \/ args.charger_kw < 0
     /\ WindowSlots(args.arrival_time, args.depart_time) # {}) =>
        ret.kind = "raise"

\* What the claim expects as normalised value of slot i of column c: NaN for
\* a slot without data, else 0.5 when the slots with data all hold the same
\* value, else (x - min)/(max - min) with min and max over the slots with data.
NormOfData(c, i) ==
    LET data == {c[j] : j \in Index(c)} \ {NoData}
        lo == CHOOSE x \in data : \A y \in data : x <= y
        hi == CHOOSE x \in data : \A y \in data : y <= x
    IN  IF c[i] = NoData THEN NaN
        ELSE IF lo = hi THEN Half
        ELSE Rat(c[i] - lo, hi - lo)

\* C13 as stated: on a table with slots that lack a price or a carbon
\* intensity, compute_scores raises nothing, normalises each signal over the
\* slots that have data (their values are what they would be without the
\* other slots), and gives no score (NaN) to a slot whose signal is missing.
C13_MissingSlots ==
    fn = "compute_scores" =>
        /\ ret.kind = "return"
        /\ Len(ret.val) = Len(df.timestamp)
        /\ \A i \in Index(ret.val) :
              LET p == NormOfData(df.price, i)
                  c == NormOfData(df.carbon_intensity, i)
              IN  ret.val[i] =
                      IF args.opt_goal = "Lowest carbon" THEN RNeg(c)
                      ELSE IF args.opt_goal = "Balanced"
                      THEN RSub(RMul(RNeg(Half), p), RMul(Half, c))
                      ELSE RNeg(p)

\* C14: build_ev_baseline (requirement and power not negative) gives 0 to the
\* slots before arrival; going through the slots at or after arrival in time
\* order, each gets min(power_kw x 0.5, what is still required) while
\* something is required and 0 afterwards; the slots with energy are a run
\* without gaps that starts at the first slot at or after arrival; the total
\* is min(ev_kwh_needed, power_kw x 0.5 x number of slots at or after
\* arrival), whatever the departure time, and falling short raises nothing.
C14_EvBaseline ==
    (/\ fn = "build_ev_baseline"
     /\ args.ev_kwh_needed >= 0
     /\ args.power_kw >= 0) =>
        LET v == ret.val
            from == SlotsFrom(args.arrival_time)
            cap == SlotCapacity(args.power_kw)
            remaining(i) ==
                RSub(FromInt(args.ev_kwh_needed),
                     Sum([k \in 1..(i - 1) |->
                             IF k \in from THEN v[k] ELSE Zero]))
        IN  /\ ret.kind = "return"
            /\ Len(v) = Len(df.timestamp)
            /\ \A i \in Index(v) \ from : v[i] = Zero
            /\ \A i \in from :
                  v[i] = IF RLt(Zero, remaining(i))
                         THEN RMin(cap, remaining(i)) ELSE Zero
            /\ \A i \in Positive(v) :
                  \A j \in from : j < i => j \in Positive(v)
            /\ Sum(v) = RMin(FromInt(args.ev_kwh_needed),
                             Rat(Cardinality(from) * args.power_kw, 2))

\* C14 witness: arrival after the first slot, which stays empty; a slot is
\* filled to capacity and the day ends with the requirement not met.
C14_Witness ==
    /\ fn = "build_ev_baseline"
    /\ args.arrival_time > 0
    /\ args.power_kw > 0
    /\ Len(ret.val) > 1
    /\ RLt(Sum(ret.val), FromInt(args.ev_kwh_needed))
    /\ ret.val[1] = Zero
    /\ \E i \in Index(ret.val) : ret.val[i] = SlotCapacity(args.power_kw)

\* C15 as stated: for every date, cop > 0 and pair of windows, overlapping or
\* not, build_heatpump_baseline returns a series that is 0 outside the union
\* of the windows and one value inside it, with total
\* estimate_daily_heat_demand(date) / cop when the union has a slot, and the
\* all-zero series, with no error, when it has none.
C15_HpBaseline ==
    fn = "build_heatpump_baseline" =>
        LET v == ret.val
            in(w, i) == df.timestamp[i] >= w[1] /\ df.timestamp[i] < w[2]
            union == {i \in Index(df.timestamp) :
                         in(args.morning_window, i) \/ in(args.evening_window, i)}
        IN  /\ ret.kind = "return"
            /\ Len(v) = Len(df.timestamp)
            /\ \A i \in Index(v) \ union : v[i] = Zero
            /\ \A i, j \in union : v[i] = v[j]
            /\ union # {} =>
                  Sum(v) = Rat(estimate_daily_heat_demand(args.date), args.cop)
            /\ union = {} => IsZero(v)

\* The household series of a run of main.py, once the baselines are built.
Baselined == pc \in {"baselined", "optimised"}
MorningSlots == {i \in Index(df.timestamp) :
                    df.timestamp[i] >= Hour(6) /\ df.timestamp[i] < Hour(8)}
EveningSlots == {i \in Index(df.timestamp) :
                    df.timestamp[i] >= Hour(17) /\ df.timestamp[i] < Hour(21)}

\* C16: on the full 48-slot day build_household_baseline gives every slot
\* 0.125 kWh, plus 0.5/4 kWh in the four slots of 06:00-08:00 and 1.0/8 kWh in
\* the eight slots of 17:00-21:00 and nothing more anywhere: every slot is
\* positive, and the day totals 48 x 0.125 + 0.5 + 1.0 kWh.
C16_Household ==
    Baselined =>
        LET v == ret.house_kwh
        IN  /\ Len(v) = 48
            /\ Cardinality(MorningSlots) = 4
            /\ Cardinality(EveningSlots) = 8
            /\ \A i \in Index(v) :
                  /\ RLt(Zero, v[i])
                  /\ v[i] = IF i \in MorningSlots THEN RAdd(<<1, 8>>, Rat(1, 8))
                            ELSE IF i \in EveningSlots
                            THEN RAdd(<<1, 8>>, Rat(1, 8))
                            ELSE <<1, 8>>
            /\ Sum(Series([i \in Index(v) |->
                              IF i \in MorningSlots THEN RSub(v[i], <<1, 8>>)
                              ELSE Zero])) = Half
            /\ Sum(Series([i \in Index(v) |->
                              IF i \in EveningSlots THEN RSub(v[i], <<1, 8>>)
                              ELSE Zero])) = FromInt(1)
            /\ Sum(v) = RAdd(FromInt(6), RAdd(Half, FromInt(1)))

\* C16 witness: the baselines are built; 07:30 and 20:30 are raised, 08:00 and
\* 21:00 are not.
C16_Witness ==
    /\ pc = "baselined"
    /\ \E i, j, k, l \in Index(ret.house_kwh) :
          /\ df.timestamp[i] = Hour(8) - 1 /\ ret.house_kwh[i] = <<1, 4>>
          /\ df.timestamp[j] = Hour(8) /\ ret.house_kwh[j] = <<1, 8>>
          /\ df.timestamp[k] = Hour(21) - 1 /\ ret.house_kwh[k] = <<1, 4>>
          /\ df.timestamp[l] = Hour(21) /\ ret.house_kwh[l] = <<1, 8>>

\* The series v charges the eligible slots elig greedily by the scores: a
\* charged slot scores at least as high as an eligible slot left at 0, at most
\* one slot holds an amount strictly between 0 and cap, and that slot scores
\* lowest among the charged ones.
Greedy(v, scores, elig, cap) ==
    LET partial == {i \in Index(v) : RLt(Zero, v[i]) /\ RLt(v[i], cap)}
    IN  /\ \A i \in elig \cap Positive(v), j \in elig \ Positive(v) :
              RLe(scores[j], scores[i])
        /\ Cardinality(partial) <= 1
        /\ \A i \in partial, j \in Positive(v) : RLe(scores[i], scores[j])

\* The run of the example: arrival 18:00, departure 07:00, 10 kWh, cheapest
\* energy, on the day whose cheapest slots are those of 02:00-04:00.
ValleyRun ==
    /\ pc = "optimised"
    /\ df = ValleyFrame
    /\ args.ev_arrival = Hour(18)
    /\ args.ev_depart = Hour(7)
    /\ args.ev_kwh = 10
    /\ args.opt_goal = "Cheapest energy"

\* C17: optimise_ev (requirement and power not negative) charges greedily by
\* score: see Greedy.  In the run of the example all the energy lies in slots
\* of 02:00-04:00, no slot holds more than 3.5 kWh, and the total is 10 kWh.
C17_Greedy ==
    /\ (EvCall /\ args.ev_kwh_needed >= 0 /\ args.charger_kw >= 0) =>
          Greedy(ret.val, compute_scores(df, args.opt_goal),
                 WindowSlots(args.arrival_time, args.depart_time),
                 SlotCapacity(args.charger_kw))
    /\ pc = "optimised" =>
          Greedy(ret.ev_kwh_opt, compute_scores(df, args.opt_goal),
                 WindowSlots(args.ev_arrival, args.ev_depart),
                 SlotCapacity(MainChargerKw))
    /\ ValleyRun =>
          /\ \A i \in Positive(ret.ev_kwh_opt) :
                df.timestamp[i] >= Hour(2) /\ df.timestamp[i] < Hour(4)
          /\ \A i \in Index(ret.ev_kwh_opt) :
                RLe(ret.ev_kwh_opt[i], SlotCapacity(MainChargerKw))
          /\ Sum(ret.ev_kwh_opt) = FromInt(10)

\* C17 witness: the run of the example, with two slots at 3.5 kWh, one at
\* 3 kWh and an earlier slot of the same price left empty.
C17_Witness ==
    /\ ValleyRun
    /\ \E i, j, k, l \in Index(ret.ev_kwh_opt) :
          /\ i # j
          /\ ret.ev_kwh_opt[i] = SlotCapacity(MainChargerKw)
          /\ ret.ev_kwh_opt[j] = SlotCapacity(MainChargerKw)
          /\ ret.ev_kwh_opt[k] = FromInt(3)
          /\ ret.ev_kwh_opt[l] = Zero
          /\ df.price[l] = df.price[k]
          /\ l < k

\* The series v spreads total evenly over the count best-scored slots.
TopFlat(v, scores, total, count) ==
    /\ Cardinality({i \in Index(v) : v[i] # Zero}) = count
    /\ \A i \in Index(v) : v[i] # Zero => v[i] = RDiv(total, FromInt(count))
    /\ \A i, j \in Index(v) :
          (v[i] # Zero /\ v[j] = Zero) => RLe(scores[j], scores[i])

\* C18: for hp_total_kwh > 0 and max_hours >= 1 on a table of N >= 1 slots,
\* optimise_heatpump gives a non-zero amount to exactly min(2 x max_hours, N)
\* slots, hp_total_kwh divided by that count to each whatever its size, and
\* a selected slot scores at least as high as one not selected: the scores
\* alone decide, not the comfort windows of the baseline.
C18_HpSelection ==
    /\ (HpCall /\ args.hp_total_kwh > 0 /\ args.max_hours >= 1
            /\ Len(df.timestamp) >= 1) =>
          /\ ret.kind = "return"
          /\ TopFlat(ret.val, compute_scores(df, args.opt_goal),
                     FromInt(args.hp_total_kwh),
                     IF 2 * args.max_hours < Len(df.timestamp)
                     THEN 2 * args.max_hours ELSE Len(df.timestamp))
    /\ pc = "optimised" =>
          TopFlat(ret.hp_kwh_opt, compute_scores(df, args.opt_goal),
                  Sum(ret.hp_kwh), 2 * MainMaxHours)

\* C18 witness: a run of main.py that heats a slot outside the comfort
\* windows of the baseline and leaves a slot inside them unheated.
C18_Witness ==
    /\ pc = "optimised"
    /\ \E i, j \in Index(ret.hp_kwh_opt) :
          /\ ret.hp_kwh[i] = Zero /\ ret.hp_kwh_opt[i] # Zero
          /\ ret.hp_kwh[j] # Zero /\ ret.hp_kwh_opt[j] = Zero

====
